---- MODULE Spec2Model ----
(***************************************************************************)
(* Model of playlist_importer.py: the retry decorator, the search cache,   *)
(* the CSV / Spotify descriptor sources and import_playlist, driven by     *)
(* main's loop over the jobs.                                              *)
(*                                                                         *)
(* Python strings are sequences of one-character strings.  None and ''     *)
(* are both the empty sequence: the code only ever tests such values for   *)
(* truthiness.  A missing row_num is 0 (falsy, printed as '?').            *)
(***************************************************************************)
EXTENDS Integers, Sequences, FiniteSets, TLC

VARIABLES
    SEARCH_CACHE,     \* module global: normalized query -> video id or None
    total_playlists,  \* main: jobs that returned True
    files_done,       \* main: sources consumed so far
    mode,             \* main: "none", "csv" or "spotify"
    pc,               \* position: "idle", "setup", "loop", "done"
    playlist_name, append, headers, rows, songs,
    library,          \* the playlists the library listing returns in this job
    playlist_id, idx, batch,
    successful, failed, searched, skipped, failed_songs,
    ret,              \* import_playlist's return value: "none", "True", "False"
    report,           \* the failure listing rendered by the final report
    trace,            \* remote calls and sleeps of the current job, in order
    wrapPlan, wrapOut \* retry_on_failure applied to a scripted operation

vars == <<SEARCH_CACHE, total_playlists, files_done, mode, pc, playlist_name,
          append, headers, rows, library, songs, playlist_id, idx, batch, successful,
          failed, searched, skipped, failed_songs, ret, report, trace,
          wrapPlan, wrapOut>>

-----------------------------------------------------------------------------
(* Bounds *)
MaxSongs == 2       \* rows of a CSV file / tracks of a Spotify playlist
MaxJobs == 2        \* sources processed in one run
MaxListing == 2     \* playlists returned by the library listing

-----------------------------------------------------------------------------
(* str methods *)
None == <<>>

IsSpace(c) == c = " "

Fold == ("M" :> "m") @@ ("Y" :> "y") @@ ("X" :> "x") @@ ("A" :> "a") @@ ("B" :> "b")

casefold(s) ==
    IF s = <<>> THEN <<>>
    ELSE [k \in 1..Len(s) |-> IF s[k] \in DOMAIN Fold THEN Fold[s[k]] ELSE s[k]]

RECURSIVE lstrip(_)
lstrip(s) == IF s # <<>> /\ IsSpace(Head(s)) THEN lstrip(Tail(s)) ELSE s

RECURSIVE rstrip(_)
rstrip(s) ==
    IF s # <<>> /\ IsSpace(s[Len(s)]) THEN rstrip(SubSeq(s, 1, Len(s) - 1)) ELSE s

strip(s) == rstrip(lstrip(s))

WordLen(t) ==
    IF \E k \in 1..Len(t) : IsSpace(t[k])
    THEN (CHOOSE k \in 1..Len(t) : IsSpace(t[k]) /\ \A j \in 1..(k - 1) : ~IsSpace(t[j])) - 1
    ELSE Len(t)

RECURSIVE split(_)
split(s) ==
    LET t == lstrip(s) IN
    IF t = <<>> THEN <<>>
    ELSE <<SubSeq(t, 1, WordLen(t))>> \o split(SubSeq(t, WordLen(t) + 1, Len(t)))

RECURSIVE join(_, _)
join(sep, ws) ==
    IF ws = <<>> THEN <<>>
    ELSE IF Len(ws) = 1 THEN ws[1]
    ELSE ws[1] \o sep \o join(sep, Tail(ws))

\* sub in s
Contains(sub, s) ==
    \E p \in 0..(Len(s) - Len(sub)) : SubSeq(s, p + 1, p + Len(sub)) = sub

-----------------------------------------------------------------------------
(* Exceptions: isReq is isinstance(e, requests.exceptions.RequestException), *)
(* status is e.response.status_code (0: no response attribute), msg is      *)
(* str(e) as a sequence of words.                                            *)
NoExc == [type |-> "", isReq |-> FALSE, status |-> 0, msg |-> <<>>]

ConnErr == [type |-> "ConnectionError", isReq |-> TRUE, status |-> 0,
            msg |-> <<"connection", "reset">>]
Http503 == [type |-> "ServerError", isReq |-> FALSE, status |-> 503,
            msg |-> <<"HTTP", "503">>]
Http409 == [type |-> "ServerError", isReq |-> FALSE, status |-> 409,
            msg |-> <<"HTTP", "409", "Already", "in", "playlist">>]
Http400 == [type |-> "ServerError", isReq |-> FALSE, status |-> 400,
            msg |-> <<"HTTP", "400", "STATUS_SUCCEEDED">>]
KeyErr == [type |-> "KeyError", isReq |-> FALSE, status |-> 0,
           msg |-> <<"videoId">>]

RemoteErrors == {ConnErr, Http503, Http409, Http400, KeyErr}

NameErrorRequests == [type |-> "NameError", isReq |-> FALSE, status |-> 0,
                      msg |-> <<"name", "requests", "is", "not", "defined">>]

\* Names bound in the module's global namespace by its imports.
ModuleGlobals == {"csv", "json", "os", "sys", "time", "re", "logging", "wraps", "YTMusic"}

-----------------------------------------------------------------------------
(* retry_on_failure *)
max_attempts == 3
backoff == 2

Returned(v) == [raised |-> FALSE, val |-> v, exc |-> NoExc]
Raised(e) == [raised |-> TRUE, val |-> None, exc |-> e]

\* Lines 66-72, evaluated when requests is bound.
retryable(e) == e.isReq \/ e.status >= 500

\* wrapper: plan[k] is what the k-th invocation of func does.  The result
\* carries the number of invocations made and the sleeps taken.
RECURSIVE wrapper(_, _, _, _, _)
wrapper(plan, attempt, maxAtt, base, sleeps) ==
    IF attempt > maxAtt
    THEN [raised |-> FALSE, val |-> None, exc |-> NoExc,
          calls |-> attempt - 1, sleeps |-> sleeps]
    ELSE LET o == plan[attempt] IN
         IF ~o.raised
         THEN [raised |-> FALSE, val |-> o.val, exc |-> NoExc,
               calls |-> attempt, sleeps |-> sleeps]
         ELSE IF "requests" \notin ModuleGlobals
         THEN \* line 67 looks up the global name requests: NameError
              [raised |-> TRUE, val |-> None, exc |-> NameErrorRequests,
               calls |-> attempt, sleeps |-> sleeps]
         ELSE IF ~retryable(o.exc) \/ attempt = maxAtt
         THEN [raised |-> TRUE, val |-> None, exc |-> o.exc,
               calls |-> attempt, sleeps |-> sleeps]
         ELSE wrapper(plan, attempt + 1, maxAtt, base,
                      Append(sleeps, base ^ (attempt - 1)))

retry_on_failure(plan) == wrapper(plan, 1, max_attempts, backoff, <<>>)

-----------------------------------------------------------------------------
(* Descriptor sources *)
IdLen == 11

IdChars ==
    {"a","b","c","d","e","f","g","h","i","j","k","l","m","n","o","p","q","r",
     "s","t","u","v","w","x","y","z",
     "A","B","C","D","E","F","G","H","I","J","K","L","M","N","O","P","Q","R",
     "S","T","U","V","W","X","Y","Z",
     "0","1","2","3","4","5","6","7","8","9","_","-"}

\* The video id captured when the pattern matches at position p, else None:
\* (?:v=|youtu\.be/)([a-zA-Z0-9_-]{11})
MatchAt(url, p) ==
    LET after(n) == SubSeq(url, p + n, p + n + IdLen - 1)
        isId(n) == p + n + IdLen - 1 <= Len(url)
                   /\ \A k \in (p + n)..(p + n + IdLen - 1) : url[k] \in IdChars
        starts(pre) == p + Len(pre) - 1 <= Len(url)
                       /\ SubSeq(url, p, p + Len(pre) - 1) = pre
    IN  IF starts(<<"v", "=">>) /\ isId(2) THEN after(2)
        ELSE IF starts(<<"y","o","u","t","u",".","b","e","/">>) /\ isId(9)
        THEN after(9)
        ELSE None

\* re.search: the leftmost match's group 1, None when nothing matches.
re_search(url) ==
    LET hits == {p \in 1..Len(url) : MatchAt(url, p) # None}
    IN  IF hits = {} THEN None
        ELSE MatchAt(url, CHOOSE p \in hits : \A r \in hits : p <= r)

\* row.get(col): None when the file has no such column.
Cell(hdrs, row, col) == IF col \in hdrs THEN row[col] ELSE None

\* RowVideoId with the URL consulted before the id column.
RowVideoIdUrlFirst(hdrs, row) ==
    IF "URL" \in hdrs /\ Cell(hdrs, row, "URL") # None
       /\ re_search(Cell(hdrs, row, "URL")) # None
    THEN re_search(Cell(hdrs, row, "URL"))
    ELSE IF "MediaId" \in hdrs THEN strip(Cell(hdrs, row, "MediaId"))
    ELSE IF "VideoId" \in hdrs THEN strip(Cell(hdrs, row, "VideoId"))
    ELSE None

\* Lines 321-339: the video id of one CSV row.
RowVideoId(hdrs, row) ==
    LET direct == IF "MediaId" \in hdrs THEN strip(Cell(hdrs, row, "MediaId"))
                  ELSE IF "VideoId" \in hdrs THEN strip(Cell(hdrs, row, "VideoId"))
                  ELSE None
        url == Cell(hdrs, row, "URL")
    IN  IF direct = None /\ "URL" \in hdrs /\ url # None /\ re_search(url) # None
        THEN re_search(url)
        ELSE direct

\* Lines 341-360: the song appended for one row; skip when the row has
\* neither a video id nor a title.
ParseRow(hdrs, row, row_num) ==
    LET video_id == RowVideoId(hdrs, row)
        title == strip(Cell(hdrs, row, "Title"))
        artists == strip(Cell(hdrs, row, "Artists"))
    IN  [skip |-> video_id = None /\ title = None,
         song |-> [videoId |-> video_id, title |-> title, artists |-> artists,
                   search_needed |-> video_id = None /\ title # None,
                   row_num |-> row_num]]

\* The songs of a CSV file holding one playlist; the k-th data row is file
\* line k + 1.
RECURSIVE ParseRows(_, _, _)
ParseRows(hdrs, rws, k) ==
    IF k > Len(rws) THEN <<>>
    ELSE LET p == ParseRow(hdrs, rws[k], k + 1)
         IN  (IF p.skip THEN <<>> ELSE <<p.song>>) \o ParseRows(hdrs, rws, k + 1)

import_playlist_from_csv(hdrs, rws) == ParseRows(hdrs, rws, 1)

\* Lines 248-256: the song of one Spotify track (no search_needed, no row_num).
SpotifySong(row) ==
    [videoId |-> None, title |-> row["Title"], artists |-> row["Artists"],
     search_needed |-> FALSE, row_num |-> 0]

parse_spotify_playlist(rws) ==
    IF rws = <<>> THEN <<>> ELSE [k \in 1..Len(rws) |-> SpotifySong(rws[k])]

-----------------------------------------------------------------------------
(* Search *)
\* Lines 175-182, on the collapsed fields.
FormatQuery(t, a) ==
    IF t # <<>> /\ a # <<>> THEN <<"\"">> \o t \o <<"\"", " ">> \o a
    ELSE IF t # <<>> THEN <<"\"">> \o t \o <<"\"">>
    ELSE IF a # <<>> THEN a
    ELSE <<>>

normalize_for_search(title, artist) ==
    FormatQuery(join(<<" ">>, split(title)), join(<<" ">>, split(artist)))

\* Lines 210-211 for one result.
ResultArtists(r) ==
    casefold(join(<<" ">>, SelectSeq(r.artists, LAMBDA a : a # None)))

\* Lines 212-217: whether the loop stops at result r.
Preferred(title, artist, r) ==
    \/ casefold(title) # <<>> /\ Contains(casefold(title), casefold(r.title))
    \/ casefold(artist) # <<>> /\ Contains(casefold(artist), ResultArtists(r))

\* Lines 205-220.
PickBest(title, artist, results) ==
    LET hits == {k \in 1..Len(results) : Preferred(title, artist, results[k])}
    IN  IF hits = {} THEN results[1]
        ELSE results[CHOOSE k \in hits : \A j \in hits : k <= j]

\* Dictionary assignment d[k] = v.
SetItem(d, k, v) == (k :> v) @@ d

\* SearchQuery without the cache lookup of lines 197-198.
SearchQueryNoLookup(cache, title, artist, r, query) ==
    IF query = <<>>
    THEN [val |-> None, cache |-> cache, query |-> query, remote |-> "none"]
    ELSE IF r.raised
    THEN [val |-> None, cache |-> cache, query |-> query, remote |-> "raise"]
    ELSE IF r.results = <<>>
    THEN [val |-> None, cache |-> SetItem(cache, query, None), query |-> query,
          remote |-> "empty"]
    ELSE [val |-> PickBest(title, artist, r.results).videoId,
          cache |-> SetItem(cache, query, PickBest(title, artist, r.results).videoId),
          query |-> query, remote |-> "hit"]

\* SearchQuery without the not-found entry of line 202.
SearchQueryNoMarker(cache, title, artist, r, query) ==
    IF query = <<>>
    THEN [val |-> None, cache |-> cache, query |-> query, remote |-> "none"]
    ELSE IF query \in DOMAIN cache
    THEN [val |-> cache[query], cache |-> cache, query |-> query, remote |-> "none"]
    ELSE IF r.raised
    THEN [val |-> None, cache |-> cache, query |-> query, remote |-> "raise"]
    ELSE IF r.results = <<>>
    THEN [val |-> None, cache |-> cache, query |-> query, remote |-> "empty"]
    ELSE [val |-> PickBest(title, artist, r.results).videoId,
          cache |-> SetItem(cache, query, PickBest(title, artist, r.results).videoId),
          query |-> query, remote |-> "hit"]

\* SearchQuery writing the not-found entry when yt.search raised.
SearchQueryCachesFailure(cache, title, artist, r, query) ==
    IF query = <<>>
    THEN [val |-> None, cache |-> cache, query |-> query, remote |-> "none"]
    ELSE IF query \in DOMAIN cache
    THEN [val |-> cache[query], cache |-> cache, query |-> query, remote |-> "none"]
    ELSE IF r.raised
    THEN [val |-> None, cache |-> SetItem(cache, query, None), query |-> query,
          remote |-> "raise"]
    ELSE IF r.results = <<>>
    THEN [val |-> None, cache |-> SetItem(cache, query, None), query |-> query,
          remote |-> "empty"]
    ELSE [val |-> PickBest(title, artist, r.results).videoId,
          cache |-> SetItem(cache, query, PickBest(title, artist, r.results).videoId),
          query |-> query, remote |-> "hit"]

\* Lines 196-228, once the query is known.  r is what yt.search does if it
\* is called: [raised, exc, results].
SearchQuery(cache, title, artist, r, query) ==
    IF query = <<>>
    THEN [val |-> None, cache |-> cache, query |-> query, remote |-> "none"]
    ELSE IF query \in DOMAIN cache
    THEN [val |-> cache[query], cache |-> cache, query |-> query, remote |-> "none"]
    ELSE IF r.raised
    THEN [val |-> None, cache |-> cache, query |-> query, remote |-> "raise"]
    ELSE IF r.results = <<>>
    THEN [val |-> None, cache |-> SetItem(cache, query, None), query |-> query,
          remote |-> "empty"]
    ELSE [val |-> PickBest(title, artist, r.results).videoId,
          cache |-> SetItem(cache, query, PickBest(title, artist, r.results).videoId),
          query |-> query, remote |-> "hit"]

\* Lines 191-228, the undecorated function.  Every exception raised inside
\* is caught at line 226, so the body always returns.
search_body(cache, title, artist, r) ==
    SearchQuery(cache, title, artist, r, normalize_for_search(title, artist))

\* The decorator's result w joined with the body's effects b.
Decorated(b, w) ==
    [raised |-> w.raised, val |-> w.val, exc |-> w.exc, calls |-> w.calls,
     cache |-> b.cache, query |-> b.query, remote |-> b.remote]

DecorateSearch(b) ==
    Decorated(b, retry_on_failure([k \in 1..max_attempts |-> Returned(b.val)]))

\* Line 184: the decorated function.  The body never raises, so each
\* invocation the decorator could make returns what the first one returns.
search_youtube_music(cache, title, artist, r) ==
    DecorateSearch(search_body(cache, title, artist, r))

-----------------------------------------------------------------------------
(* import_playlist: helpers *)
batch_size == 20
report_limit == 20
pacing_delay == 1

Ev(op) == [op |-> op, pid |-> None, ids |-> <<>>, q |-> None, ok |-> TRUE,
           exc |-> NoExc, n |-> 0, val |-> None, results |-> <<>>]

MsgNotFound == <<"Song", "not", "found", "in", "search">>
MsgNoId == <<"No", "video", "ID", "available">>

\* FirstMatch comparing the titles as they are.
FirstMatchExact(listing, name) ==
    LET hits == {k \in 1..Len(listing) : listing[k].title = name}
    IN  IF hits = {} THEN None
        ELSE listing[CHOOSE k \in hits : \A j \in hits : k <= j].playlistId

\* Lines 406-413: the id of the first playlist whose title matches.
FirstMatch(listing, name) ==
    LET same(pl) == casefold(strip(pl.title)) = casefold(strip(name))
        hits == {k \in 1..Len(listing) : same(listing[k])}
    IN  IF hits = {} THEN None
        ELSE listing[CHOOSE k \in hits : \A j \in hits : k <= j].playlistId

WordLower == ("Already" :> "already") @@ ("Duplicate" :> "duplicate") @@ ("HTTP" :> "http")

lowerWords(msg) ==
    IF msg = <<>> THEN <<>>
    ELSE [k \in 1..Len(msg) |-> IF msg[k] \in DOMAIN WordLower THEN WordLower[msg[k]] ELSE msg[k]]

HasWord(msg, w) == \E k \in 1..Len(msg) : msg[k] = w

\* Lines 471-476: the bucket a failed batch is counted in.
ClassifyLower(error_msg, lowered) ==
    IF HasWord(error_msg, "STATUS_SUCCEEDED") THEN "successful"
    ELSE IF HasWord(lowered, "already") \/ HasWord(lowered, "duplicate") THEN "skipped"
    ELSE "failed"

Classify(error_msg) == ClassifyLower(error_msg, lowerWords(error_msg))

\* Lines 478-487: the failure entries of a failed batch.
RECURSIVE FailedEntries(_, _, _)
FailedEntries(b, sgs, error_msg) ==
    IF b = <<>> THEN <<>>
    ELSE LET hits == {k \in 1..Len(sgs) : sgs[k].videoId = Head(b)}
             m == sgs[CHOOSE k \in hits : \A j \in hits : k <= j]
         IN  (IF hits = {} THEN <<>>
              ELSE <<[row |-> m.row_num, title |-> m.title, artists |-> m.artists,
                      error |-> error_msg]>>)
             \o FailedEntries(Tail(b), sgs, error_msg)

\* The invocations of yt.add_playlist_items made by add_songs_batch, with
\* the decorator's sleeps between them.
RECURSIVE AddEvents(_, _, _, _, _)
AddEvents(pid, b, plan, w, k) ==
    IF k > w.calls THEN <<>>
    ELSE <<[Ev("add") EXCEPT !.pid = pid, !.ids = b, !.ok = ~plan[k].raised,
                             !.exc = plan[k].exc]>>
         \o (IF k <= Len(w.sleeps) THEN <<[Ev("sleep") EXCEPT !.n = w.sleeps[k]]>> ELSE <<>>)
         \o AddEvents(pid, b, plan, w, k + 1)

\* Lines 376-383 under the decorator.
add_songs_batch(plan) == retry_on_failure(plan)

\* FlushCounted counting a failed batch once rather than id by id.
FlushCountedOnce(pid, b, plan, sgs, w, bucket) ==
    [successful |-> IF bucket = "successful" THEN Len(b) ELSE 0,
     skipped |-> IF bucket = "skipped" THEN Len(b) ELSE 0,
     failed |-> IF bucket = "failed" THEN 1 ELSE 0,
     entries |-> IF bucket = "failed" THEN FailedEntries(b, sgs, w.exc.msg) ELSE <<>>,
     events |-> AddEvents(pid, b, plan, w, 1)
                \o <<[Ev("add_songs_batch") EXCEPT !.pid = pid, !.ids = b,
                                                   !.ok = ~w.raised, !.exc = w.exc]>>
                \o (IF w.raised THEN <<>>
                    ELSE <<[Ev("sleep") EXCEPT !.n = pacing_delay]>>)]

\* Lines 464-488: the counts, failure entries and calls of a flush whose
\* add_songs_batch call ended as w and is counted in bucket.
FlushCounted(pid, b, plan, sgs, w, bucket) ==
    [successful |-> IF bucket = "successful" THEN Len(b) ELSE 0,
     skipped |-> IF bucket = "skipped" THEN Len(b) ELSE 0,
     failed |-> IF bucket = "failed" THEN Len(b) ELSE 0,
     entries |-> IF bucket = "failed" THEN FailedEntries(b, sgs, w.exc.msg) ELSE <<>>,
     events |-> AddEvents(pid, b, plan, w, 1)
                \o <<[Ev("add_songs_batch") EXCEPT !.pid = pid, !.ids = b,
                                                   !.ok = ~w.raised, !.exc = w.exc]>>
                \o (IF w.raised THEN <<>>
                    ELSE <<[Ev("sleep") EXCEPT !.n = pacing_delay]>>)]

FlushResult(pid, b, plan, sgs, w) ==
    FlushCounted(pid, b, plan, sgs, w,
                 IF w.raised THEN Classify(w.exc.msg) ELSE "successful")

\* Lines 462-488: one flush of batch b.
Flush(pid, b, plan, sgs) == FlushResult(pid, b, plan, sgs, add_songs_batch(plan))

NoFlush == [successful |-> 0, skipped |-> 0, failed |-> 0, entries |-> <<>>,
            events |-> <<>>]

-----------------------------------------------------------------------------
(* Inputs *)
UpTo(S, n) == UNION {[1..k -> S] : k \in 0..n}

IdA == <<"a","b","c","1","2","3","4","5","6","7","8">>
IdB == <<"x","y","z","1","2","3","4","5","6","7","8">>
IdC == <<"q","r","s","1","2","3","4","5","6","7","8">>

UrlWatch(id) == <<"?", "v", "=">> \o id
UrlShort(id) == <<"y","o","u","t","u",".","b","e","/">> \o id
UrlOther == <<"?", "v", "=", "a", "b">>

Row(m, v, u, t, a) == [MediaId |-> m, VideoId |-> v, URL |-> u, Title |-> t, Artists |-> a]

rDirect == Row(<<" ">> \o IdA, None, UrlWatch(IdB), <<"a">>, <<"x">>)
rUrl == Row(None, None, UrlShort(IdB), <<"a", " ", "b">>, <<"x">>)
rSearch1 == Row(None, None, UrlOther, <<" ", "a", " ", " ", "b">>, <<"x">>)
rEmpty == Row(None, None, None, <<" ">>, <<"x">>)
rVideo == Row(None, IdC, None, <<"A">>, None)

RowSet == {rDirect, rUrl, rSearch1, rEmpty, rVideo}
SpotifyRowSet == {rSearch1, rEmpty}

HeadersKreate == {"MediaId", "URL", "Title", "Artists"}
HeadersSimple == {"VideoId", "Title", "Artists"}

Digits == <<"0","1","2","3","4","5","6","7","8","9">>

\* A run of n rows that carry distinct explicit ids.
NumberedRows(n) ==
    [k \in 1..n |-> Row(<<"n", Digits[(k \div 10) + 1], Digits[(k % 10) + 1]>>,
                        None, None, <<"a">>, <<"x">>)]

NameLower == <<"m", "y", " ", "m", "i", "x">>
NameOther == <<"b">>

PlCaps == [title |-> <<" ", "M", "y", " ", "M", "i", "x">>, playlistId |-> <<"PL1">>]
PlLower == [title |-> NameLower, playlistId |-> <<"PL2">>]
PlOther == [title |-> <<"m", "y">>, playlistId |-> <<"PL3">>]
NewId == <<"NEW">>

Scenario(src, name, app, hdrs, rws, lib) ==
    [source |-> src, name |-> name, append |-> app, headers |-> hdrs, rows |-> rws,
     library |-> lib]

\* Every short CSV file, against an empty library.
TrackScenarios ==
    {Scenario("csv", NameLower, TRUE, h, rws, <<>>) :
        h \in {HeadersKreate, HeadersSimple}, rws \in UpTo(RowSet, MaxSongs)}

\* Every small library, both modes, for two one-row files.
SetupScenarios ==
    {Scenario("csv", nm[1], nm[2], HeadersKreate, rws, lib) :
        nm \in {NameLower, NameOther} \X BOOLEAN,
        rws \in {<<rDirect>>, <<rSearch1>>},
        lib \in UpTo({PlCaps, PlLower, PlOther}, MaxListing)}

SpotifyScenarios ==
    {Scenario("spotify", NameLower, TRUE, {}, rws, <<>>) :
        rws \in UpTo(SpotifyRowSet, MaxSongs)}

\* Files long enough to fill a batch.
LongScenarios ==
    {Scenario("csv", NameLower, FALSE, HeadersKreate, NumberedRows(batch_size) \o tail, <<>>) :
        tail \in UpTo({rDirect, rSearch1}, 1)}

\* An explicit id, a title to search for, an empty descriptor; no playlist
\* of that name exists.
EndToEndRows == <<rDirect, rSearch1, rEmpty>>
EndToEndScenarios ==
    {Scenario("csv", NameLower, TRUE, HeadersKreate, EndToEndRows, <<PlOther>>)}

JobInputs ==
    TrackScenarios \cup SetupScenarios \cup SpotifyScenarios \cup LongScenarios
    \cup EndToEndScenarios

\* The files of a run over several sources.
RunInputs ==
    {Scenario("csv", NameLower, FALSE, HeadersKreate, rws, <<>>) :
        rws \in UpTo({rDirect, rSearch1}, MaxSongs)}

\* What one call of yt.search does.
SearchReturns(results) == [raised |-> FALSE, exc |-> NoExc, results |-> results]
SearchRaises(e) == [raised |-> TRUE, exc |-> e, results |-> <<>>]

resA == [videoId |-> IdA, title |-> <<"A", " ", " ", "b", "!">>, artists |-> <<<<"y">>>>]
resB == [videoId |-> IdB, title |-> <<"z">>, artists |-> <<None, <<"X">>>>]
resC == [videoId |-> IdC, title |-> <<"q">>, artists |-> <<>>]

SearchOutcomes ==
    {SearchRaises(ConnErr), SearchReturns(<<>>), SearchReturns(<<resA>>),
     SearchReturns(<<resB, resA>>), SearchReturns(<<resC>>)}

AddOutcomes == {Returned(<<"ok">>)} \cup {Raised(e) : e \in RemoteErrors}

\* What the attempts of yt.add_playlist_items do.  An attempt the decorator
\* never makes cannot be observed, so it is fixed to a plain return.
AddPlans ==
    {p \in [1..max_attempts -> AddOutcomes] :
        \A k \in 1..max_attempts :
            k > retry_on_failure(p).calls => p[k] = Returned(<<"ok">>)}

NotCalled == [raised |-> FALSE, val |-> None, exc |-> NoExc, calls |-> 0, sleeps |-> <<>>]

-----------------------------------------------------------------------------
(* The run *)
NoReport == [shown |-> <<>>, more |-> 0]

Init ==
    /\ SEARCH_CACHE = <<>>
    /\ total_playlists = 0
    /\ files_done = 0
    /\ mode = "none"
    /\ pc = "idle"
    /\ playlist_name = None
    /\ append = TRUE
    /\ headers = {}
    /\ rows = <<>>
    /\ library = <<>>
    /\ songs = <<>>
    /\ playlist_id = None
    /\ idx = 0
    /\ batch = <<>>
    /\ successful = 0
    /\ failed = 0
    /\ searched = 0
    /\ skipped = 0
    /\ failed_songs = <<>>
    /\ ret = "none"
    /\ report = NoReport
    /\ trace = <<>>
    /\ wrapPlan = <<>>
    /\ wrapOut = NotCalled

wrapVars == <<wrapPlan, wrapOut>>
runVars == <<SEARCH_CACHE, total_playlists, files_done, mode>>
inputVars == <<playlist_name, append, headers, rows, library, songs>>
countVars == <<successful, failed, searched, skipped, failed_songs>>

\* main, lines 648-651 (611 for Spotify): import_playlist is entered when the
\* source yielded a playlist.
EnterJob(sc, sgs) ==
    /\ sc.source = "spotify" => files_done = 0
    /\ files_done' = files_done + 1
    /\ mode' = sc.source
    /\ pc' = IF sc.source = "csv" /\ sgs = <<>> THEN "idle" ELSE "setup"
    /\ playlist_name' = sc.name
    /\ append' = sc.append
    /\ headers' = sc.headers
    /\ rows' = sc.rows
    /\ library' = sc.library
    /\ songs' = sgs

\* StartJobFrom with the run ending at the first job that returned False.
StartJobFromHaltOnFailure(Inputs, limit) ==
    /\ pc \in {"idle", "done"}
    /\ ret # "False"
    /\ files_done < limit
    /\ mode # "spotify"
    /\ \E sc \in Inputs :
        EnterJob(sc, IF sc.source = "csv"
                     THEN import_playlist_from_csv(sc.headers, sc.rows)
                     ELSE parse_spotify_playlist(sc.rows))
    /\ playlist_id' = None
    /\ idx' = 0
    /\ batch' = <<>>
    /\ successful' = 0
    /\ failed' = 0
    /\ searched' = 0
    /\ skipped' = 0
    /\ failed_songs' = <<>>
    /\ ret' = "none"
    /\ report' = NoReport
    /\ trace' = <<>>
    /\ UNCHANGED <<SEARCH_CACHE, total_playlists, wrapVars>>

\* main, lines 606-651: take the next source, parse it, and enter
\* import_playlist when it yields a playlist.
StartJobFrom(Inputs, limit) ==
    /\ pc \in {"idle", "done"}
    /\ files_done < limit
    /\ mode # "spotify"
    /\ \E sc \in Inputs :
        EnterJob(sc, IF sc.source = "csv"
                     THEN import_playlist_from_csv(sc.headers, sc.rows)
                     ELSE parse_spotify_playlist(sc.rows))
    /\ playlist_id' = None
    /\ idx' = 0
    /\ batch' = <<>>
    /\ successful' = 0
    /\ failed' = 0
    /\ searched' = 0
    /\ skipped' = 0
    /\ failed_songs' = <<>>
    /\ ret' = "none"
    /\ report' = NoReport
    /\ trace' = <<>>
    /\ UNCHANGED <<SEARCH_CACHE, total_playlists, wrapVars>>

\* SetupWith listing the library whatever the mode.
SetupWithListAlways(listOk, createOk, found) ==
    /\ found # None => createOk
    /\ trace' = trace
                \o <<[Ev("list") EXCEPT !.ok = listOk]>>
                \o (IF found = None
                    THEN <<[Ev("create") EXCEPT !.ok = createOk, !.pid = NewId]>>
                    ELSE <<>>)
    /\ IF found = None /\ ~createOk
       THEN /\ pc' = "done"
            /\ ret' = "False"
            /\ playlist_id' = None
       ELSE /\ pc' = "loop"
            /\ ret' = ret
            /\ playlist_id' = IF found # None THEN found ELSE NewId

\* SetupWith ending the job when the listing raised.
SetupWithLookupAbort(listOk, createOk, found) ==
    /\ found # None => createOk
    /\ listOk \/ createOk
    /\ trace' = trace
                \o (IF append THEN <<[Ev("list") EXCEPT !.ok = listOk]>> ELSE <<>>)
                \o (IF found = None /\ listOk
                    THEN <<[Ev("create") EXCEPT !.ok = createOk, !.pid = NewId]>>
                    ELSE <<>>)
    /\ IF ~listOk \/ (found = None /\ ~createOk)
       THEN /\ pc' = "done"
            /\ ret' = "False"
            /\ playlist_id' = None
       ELSE /\ pc' = "loop"
            /\ ret' = ret
            /\ playlist_id' = IF found # None THEN found ELSE NewId

\* Lines 417-428 and 525-529, with found the id the lookup produced.
SetupWith(listOk, createOk, found) ==
    /\ found # None => createOk
    /\ trace' = trace
                \o (IF append THEN <<[Ev("list") EXCEPT !.ok = listOk]>> ELSE <<>>)
                \o (IF found = None
                    THEN <<[Ev("create") EXCEPT !.ok = createOk, !.pid = NewId]>>
                    ELSE <<>>)
    /\ IF found = None /\ ~createOk
       THEN /\ pc' = "done"
            /\ ret' = "False"
            /\ playlist_id' = None
       ELSE /\ pc' = "loop"
            /\ ret' = ret
            /\ playlist_id' = IF found # None THEN found ELSE NewId

\* import_playlist, lines 398-438 and 525-529: look the playlist up, create
\* it when none was found; a failing create_playlist ends the job.
Setup ==
    /\ pc = "setup"
    /\ \E listOk \in (IF append THEN BOOLEAN ELSE {TRUE}), createOk \in BOOLEAN :
        SetupWith(listOk, createOk,
                  IF append /\ listOk THEN FirstMatch(library, playlist_name) ELSE None)
    /\ UNCHANGED <<runVars, inputVars, idx, batch, countVars, report, wrapVars>>

NoSearch == SearchReturns(<<>>)

\* Lines 443-455: the video id of song i, or the exception raised for it.
\* s is the search made for it.
Resolution(song, i, needSearch, r, s) ==
    [video_id |-> IF needSearch THEN s.val ELSE song.videoId,
     error |-> IF needSearch /\ s.raised THEN s.exc.msg
               ELSE IF needSearch /\ s.val = None THEN MsgNotFound
               ELSE IF ~needSearch /\ song.videoId = None THEN MsgNoId
               ELSE None,
     cache |-> s.cache,
     searched |-> IF needSearch /\ ~s.raised THEN 1 ELSE 0,
     events |-> IF ~needSearch THEN <<>>
                ELSE <<[Ev("search_youtube_music") EXCEPT !.q = s.query, !.n = i,
                                                          !.val = s.val]>>
                     \o (IF s.remote = "none" THEN <<>>
                         ELSE <<[Ev("yt.search") EXCEPT !.q = s.query, !.n = i,
                                                        !.ok = ~r.raised, !.exc = r.exc,
                                                        !.val = s.val,
                                                        !.results = r.results]>>)]

Resolve(song, i, needSearch, r) ==
    Resolution(song, i, needSearch, r,
               IF needSearch
               THEN search_youtube_music(SEARCH_CACHE, song.title, song.artists, r)
               ELSE [raised |-> FALSE, val |-> None, exc |-> NoExc, calls |-> 0,
                     cache |-> SEARCH_CACHE, query |-> None, remote |-> "none"])

\* Lines 497-506: the song's own failure.
SongFailed(song, res) ==
    /\ batch' = batch
    /\ successful' = successful
    /\ skipped' = skipped
    /\ failed' = failed + 1
    /\ failed_songs' = Append(failed_songs,
                              [row |-> song.row_num, title |-> song.title,
                               artists |-> song.artists, error |-> res.error])
    /\ trace' = trace \o res.events

\* SongBatched keeping the batch when its flush failed.
SongBatchedKeepOnFailure(i, res, doFlush, f) ==
    /\ batch' = IF doFlush /\ f.failed = 0 THEN <<>> ELSE Append(batch, res.video_id)
    /\ successful' = successful + f.successful
    /\ skipped' = skipped + f.skipped
    /\ failed' = failed + f.failed
    /\ failed_songs' = failed_songs \o f.entries
    /\ trace' = trace \o res.events
                \o <<[Ev("append") EXCEPT !.ids = <<res.video_id>>, !.n = i]>>
                \o f.events

\* Lines 457-488: the id joins the batch, which f flushed (or not).
SongBatched(i, res, doFlush, f) ==
    /\ batch' = IF doFlush THEN <<>> ELSE Append(batch, res.video_id)
    /\ successful' = successful + f.successful
    /\ skipped' = skipped + f.skipped
    /\ failed' = failed + f.failed
    /\ failed_songs' = failed_songs \o f.entries
    /\ trace' = trace \o res.events
                \o <<[Ev("append") EXCEPT !.ids = <<res.video_id>>, !.n = i]>>
                \o f.events

\* FlushDue letting the batch grow one past batch_size.
FlushDueLate(b, i, n) == Len(b) > batch_size \/ i = n

\* Line 461: whether batch b, just extended by song i of n, is flushed.
FlushDue(b, i, n) == Len(b) >= batch_size \/ i = n

\* Lines 461-488: the batch is flushed when due.
SongAppended(i, res, doFlush) ==
    IF doFlush
    THEN \E plan \in AddPlans :
            SongBatched(i, res, doFlush,
                        Flush(playlist_id, Append(batch, res.video_id), plan, songs))
    ELSE SongBatched(i, res, doFlush, NoFlush)

SongStep(song, i, res) ==
    /\ SEARCH_CACHE' = res.cache
    /\ searched' = searched + res.searched
    /\ IF res.error # None
       THEN SongFailed(song, res)
       ELSE SongAppended(i, res, FlushDue(Append(batch, res.video_id), i, Len(songs)))

NeedSearch(song) == song.videoId = None /\ song.search_needed

\* import_playlist, lines 440-506: one iteration of the track loop.
ProcessSong ==
    /\ pc = "loop"
    /\ idx < Len(songs)
    /\ \E r \in (IF NeedSearch(songs[idx + 1]) THEN SearchOutcomes ELSE {NoSearch}) :
        SongStep(songs[idx + 1], idx + 1,
                 Resolve(songs[idx + 1], idx + 1, NeedSearch(songs[idx + 1]), r))
    /\ idx' = idx + 1
    /\ UNCHANGED <<total_playlists, files_done, mode, pc, inputVars, playlist_id, ret,
                   report, wrapVars>>

Min(a, b) == IF a <= b THEN a ELSE b

\* Render showing every failure detail.
RenderAll(fs) ==
    [shown |-> fs,
     more |-> IF Len(fs) > report_limit THEN Len(fs) - report_limit ELSE 0]

\* Lines 517-521: the failure details shown and the N of "... and N more"
\* (0: no such line).
Render(fs) ==
    [shown |-> SubSeq(fs, 1, Min(report_limit, Len(fs))),
     more |-> IF Len(fs) > report_limit THEN Len(fs) - report_limit ELSE 0]

\* Finish returning False when a track failed.
FinishFalseOnTrackFailure ==
    /\ pc = "loop"
    /\ idx = Len(songs)
    /\ report' = IF failed > 0 THEN Render(failed_songs) ELSE NoReport
    /\ ret' = IF failed > 0 THEN "False" ELSE "True"
    /\ pc' = "done"
    /\ total_playlists' = IF mode = "csv" /\ failed = 0 THEN total_playlists + 1
                          ELSE total_playlists
    /\ UNCHANGED <<SEARCH_CACHE, files_done, mode, inputVars, playlist_id, idx, batch,
                   countVars, trace, wrapVars>>

\* import_playlist, lines 508-523, and main, lines 651-652: render the
\* report, return True; main counts the playlist.
Finish ==
    /\ pc = "loop"
    /\ idx = Len(songs)
    /\ report' = IF failed > 0 THEN Render(failed_songs) ELSE NoReport
    /\ ret' = "True"
    /\ pc' = "done"
    /\ total_playlists' = IF mode = "csv" THEN total_playlists + 1 ELSE total_playlists
    /\ UNCHANGED <<SEARCH_CACHE, files_done, mode, inputVars, playlist_id, idx, batch,
                   countVars, trace, wrapVars>>

\* A run over one source.
StartJob == StartJobFrom(JobInputs, 1)

Next == StartJob \/ Setup \/ ProcessSong \/ Finish

Spec == Init /\ [][Next]_vars

\* A run over up to MaxJobs sources.
StartRunJob == StartJobFrom(RunInputs, MaxJobs)

NextRun == StartRunJob \/ Setup \/ ProcessSong \/ Finish

SpecRun == Init /\ [][NextRun]_vars

-----------------------------------------------------------------------------
(* retry_on_failure applied to an operation whose attempts are scripted *)
RetryOutcomes ==
    {Returned(<<"r1">>), Returned(<<"r2">>)} \cup {Raised(e) : e \in RemoteErrors}

RetryPlans == [1..max_attempts -> RetryOutcomes]

InitRetry ==
    /\ SEARCH_CACHE = <<>>
    /\ total_playlists = 0
    /\ files_done = 0
    /\ mode = "none"
    /\ pc = "idle"
    /\ playlist_name = None
    /\ append = TRUE
    /\ headers = {}
    /\ rows = <<>>
    /\ library = <<>>
    /\ songs = <<>>
    /\ playlist_id = None
    /\ idx = 0
    /\ batch = <<>>
    /\ successful = 0
    /\ failed = 0
    /\ searched = 0
    /\ skipped = 0
    /\ failed_songs = <<>>
    /\ ret = "none"
    /\ report = NoReport
    /\ trace = <<>>
    /\ wrapPlan \in RetryPlans
    /\ wrapOut = NotCalled

CallWrapped ==
    /\ wrapOut.calls = 0
    /\ wrapOut' = retry_on_failure(wrapPlan)
    /\ UNCHANGED <<runVars, pc, inputVars, playlist_id, idx, batch, countVars, ret,
                   report, trace, wrapPlan>>

NextRetry == CallWrapped

SpecRetry == InitRetry /\ [][NextRetry]_vars

-----------------------------------------------------------------------------
(* Properties *)
Events(op) == {k \in 1..Len(trace) : trace[k].op = op}
JobReturnedTrue == pc = "done" /\ ret = "True"
AllRemoteOk == \A k \in 1..Len(trace) : trace[k].ok
\* The ids that joined the pending batch, in order.
RECURSIVE IdsOf(_, _)
IdsOf(tr, op) ==
    IF tr = <<>> THEN <<>>
    ELSE (IF Head(tr).op = op THEN Head(tr).ids ELSE <<>>) \o IdsOf(Tail(tr), op)

\* C1: when import_playlist returns True, every track of the job is counted
\* in exactly one of successful, skipped, failed.
C1_EveryTrackCounted ==
    JobReturnedTrue => successful + skipped + failed = Len(songs)

\* C2: when every remote call succeeded, successful is the number of
\* descriptors that obtained an identifier and failed the number that did
\* not; for the end-to-end example with a search hit the counts are
\* successful = 2, failed = 1, searched = 1.
C2_EndToEndCounts ==
    (JobReturnedTrue /\ AllRemoteOk) =>
        /\ successful = Cardinality(Events("append"))
        /\ failed = Len(rows) - Cardinality(Events("append"))
        /\ (rows = EndToEndRows /\ Cardinality(Events("append")) = 2) =>
                (successful = 2 /\ failed = 1 /\ searched = 1)

\* C3: at job completion the pending batch is empty and every identifier
\* that joined the batch was passed to add_songs_batch in exactly one flush.
C3_NothingLeftUnsubmitted ==
    JobReturnedTrue =>
        /\ batch = <<>>
        /\ IdsOf(trace, "add") = IdsOf(trace, "append")

\* The claims' reading of a retryable cause: a network / connection /
\* timeout failure, or a response status of 500 or more.
TransientCause(e) == e.type = "ConnectionError" \/ e.status >= 500
WrapperCalled == wrapOut.calls > 0

\* C4: an operation that fails with a retryable cause on attempts 1 and 2
\* and succeeds on attempt 3 is invoked 3 times, its third result is
\* returned, and the two sleeps last 1 s and then 2 s.
C4_ThirdAttemptReturned ==
    (/\ WrapperCalled
     /\ wrapPlan[1].raised /\ TransientCause(wrapPlan[1].exc)
     /\ wrapPlan[2].raised /\ TransientCause(wrapPlan[2].exc)
     /\ ~wrapPlan[3].raised) =>
        /\ ~wrapOut.raised
        /\ wrapOut.val = wrapPlan[3].val
        /\ wrapOut.calls = 3
        /\ wrapOut.sleeps = <<1, 2>>

\* The attempt at which the operation's failure is final: every earlier
\* attempt failed with a retryable cause, and this one fails either with a
\* cause that is not retryable or as the last allowed attempt.
FinalFailureAt(k) ==
    /\ \A j \in 1..(k - 1) : wrapPlan[j].raised /\ TransientCause(wrapPlan[j].exc)
    /\ wrapPlan[k].raised
    /\ (k = max_attempts \/ ~TransientCause(wrapPlan[k].exc))

\* C5: the final failure reaches the caller unchanged, and the wrapper never
\* returns a normal value in its place.
C5_FinalFailureUnchanged ==
    WrapperCalled =>
        \A k \in 1..max_attempts :
            FinalFailureAt(k) => (wrapOut.raised /\ wrapOut.exc = wrapPlan[k].exc)

\* C6: a failure is retried if and only if its cause is retryable; any other
\* failure is surfaced at once: one invocation, no sleep.
C6_RetriedIffTransient ==
    (WrapperCalled /\ wrapPlan[1].raised) =>
        IF TransientCause(wrapPlan[1].exc)
        THEN wrapOut.calls >= 2 /\ Len(wrapOut.sleeps) >= 1
        ELSE /\ wrapOut.calls = 1
             /\ wrapOut.sleeps = <<>>
             /\ wrapOut.raised
             /\ wrapOut.exc = wrapPlan[1].exc

Queries == {trace[k].q : k \in Events("search_youtube_music")}
CallsFor(q) == {k \in Events("search_youtube_music") : trace[k].q = q}
RemoteFor(q) == {k \in Events("yt.search") : trace[k].q = q}
FirstOf(S) == CHOOSE k \in S : \A j \in S : k <= j

\* C7 as stated: two calls with the same normalized query make exactly one
\* remote search, whatever the first call's outcome.
C7_OneRemoteSearchWhateverOutcome ==
    \A q \in Queries :
        Cardinality(CallsFor(q)) >= 2 => Cardinality(RemoteFor(q)) = 1

\* C7 amended: two calls with the same normalized query make exactly one
\* remote search when the first call's remote search returned (a hit or an
\* empty result).
C7_OneRemoteSearchOnceReturned ==
    \A q \in Queries :
        (/\ Cardinality(CallsFor(q)) >= 2
         /\ RemoteFor(q) # {}
         /\ trace[FirstOf(RemoteFor(q))].ok) =>
            Cardinality(RemoteFor(q)) = 1

C7_Witness ==
    \E q \in Queries :
        /\ Cardinality(CallsFor(q)) >= 2
        /\ RemoteFor(q) # {}
        /\ trace[FirstOf(RemoteFor(q))].ok
        /\ trace[FirstOf(RemoteFor(q))].val # None
        /\ \E j, k \in CallsFor(q) : songs[trace[j].n].title # songs[trace[k].n].title

\* A remote search that returned no results.
EmptySearches == {k \in Events("yt.search") : trace[k].ok /\ trace[k].val = None}

\* C8: after a remote search returned no results, the cache holds the query
\* with the not-found marker, and every later call with that query returns
\* not-found without a remote search.
C8_NegativeCaching ==
    \A k \in EmptySearches :
        /\ trace[k].q \in DOMAIN SEARCH_CACHE
        /\ SEARCH_CACHE[trace[k].q] = None
        /\ \A j \in (k + 1)..Len(trace) :
            trace[j].q = trace[k].q =>
                /\ trace[j].op # "yt.search"
                /\ trace[j].op = "search_youtube_music" => trace[j].val = None

C8_Witness ==
    \E k \in EmptySearches :
        \E j \in (k + 1)..Len(trace) :
            trace[j].op = "search_youtube_music" /\ trace[j].q = trace[k].q

\* The descriptor fields of the row song i was parsed from.
RowOf(i) == IF mode = "csv" THEN rows[songs[i].row_num - 1] ELSE rows[i]
ExplicitId(i) ==
    IF strip(Cell(headers, RowOf(i), "MediaId")) # None
    THEN strip(Cell(headers, RowOf(i), "MediaId"))
    ELSE strip(Cell(headers, RowOf(i), "VideoId"))
UrlId(i) == re_search(Cell(headers, RowOf(i), "URL"))
SearchedFor(i) == \E k \in 1..Len(trace) :
                    trace[k].op \in {"search_youtube_music", "yt.search"} /\ trace[k].n = i
AppendedId(i) ==
    IF \E k \in Events("append") : trace[k].n = i
    THEN trace[CHOOSE k \in Events("append") : trace[k].n = i].ids[1]
    ELSE None
SearchValue(i) ==
    IF \E k \in Events("search_youtube_music") : trace[k].n = i
    THEN trace[CHOOSE k \in Events("search_youtube_music") : trace[k].n = i].val
    ELSE None

\* C9: a track's identifier is its explicit id when that is non-empty, else
\* the id extracted from its URL when the URL matches, else the search
\* result; no search is made for a track that has an explicit id.
C9_ResolutionPrecedence ==
    \A i \in 1..idx :
        IF ExplicitId(i) # None
        THEN AppendedId(i) = ExplicitId(i) /\ ~SearchedFor(i)
        ELSE IF UrlId(i) # None
        THEN AppendedId(i) = UrlId(i) /\ ~SearchedFor(i)
        ELSE /\ AppendedId(i) = SearchValue(i)
             /\ mode = "csv" => SearchedFor(i)

C9_Witness ==
    /\ mode = "csv"
    /\ pc = "done"
    /\ \E i \in 1..idx :
        /\ ExplicitId(i) # None
        /\ UrlId(i) # None
        /\ UrlId(i) # ExplicitId(i)
        /\ AppendedId(i) = ExplicitId(i)
    /\ \E i \in 1..idx : ExplicitId(i) = None /\ UrlId(i) # None /\ AppendedId(i) = UrlId(i)

\* The playlists of the listing whose title equals the requested name after
\* trimming and case-folding.
TitleMatches == {k \in 1..Len(library) :
                    casefold(strip(library[k].title)) = casefold(strip(playlist_name))}
ListingReturned == \E k \in Events("list") : trace[k].ok

\* C10: in append mode, when the listing holds a playlist of the requested
\* name, create_playlist is not called and the first such playlist receives
\* the tracks; when no title matches, create_playlist is called once.
C10_AppendToFirstMatch ==
    (pc \in {"loop", "done"} /\ append /\ ListingReturned) =>
        IF TitleMatches # {}
        THEN /\ Events("create") = {}
             /\ playlist_id = library[FirstOf(TitleMatches)].playlistId
             /\ \A k \in Events("add") : trace[k].pid = library[FirstOf(TitleMatches)].playlistId
        ELSE Cardinality(Events("create")) = 1

C10_Witness ==
    /\ pc = "done"
    /\ append
    /\ ListingReturned
    /\ Cardinality(TitleMatches) = 2
    /\ library[1].playlistId # library[2].playlistId
    /\ library[1].title # playlist_name
    /\ Events("add") # {}

\* The calls of add_songs_batch, in order.
Flushes == SelectSeq(trace, LAMBDA e : e.op = "add_songs_batch")
AllResolved == \A i \in 1..Len(songs) : AppendedId(i) # None

\* C11: when all n tracks of a job resolve to an identifier, add_songs_batch
\* is called ceil(n / 20) times; every batch holds 20 ids except the last,
\* which holds the remainder, whether the flushes succeed or fail.
C11_BatchSizes ==
    (JobReturnedTrue /\ AllResolved) =>
        /\ Len(Flushes) = (Len(songs) + batch_size - 1) \div batch_size
        /\ \A k \in 1..Len(Flushes) :
            Len(Flushes[k].ids) = IF k * batch_size <= Len(songs) THEN batch_size
                                  ELSE Len(songs) % batch_size

C11_Witness ==
    /\ JobReturnedTrue
    /\ AllResolved
    /\ Len(songs) = batch_size + 1
    /\ Len(Flushes) = 2
    /\ ~Flushes[1].ok
    /\ Flushes[2].ok
    /\ Events("yt.search") # {}

\* The identifiers the tracks i, i + 1, ... resolved to, in track order.
RECURSIVE ResolvedFrom(_)
ResolvedFrom(i) ==
    IF i > Len(songs) THEN <<>>
    ELSE (IF AppendedId(i) # None THEN <<AppendedId(i)>> ELSE <<>>) \o ResolvedFrom(i + 1)

\* C12: at job completion the batches passed to add_songs_batch, joined in
\* flush order, are the resolved identifiers in source-track order.
C12_BatchesInSourceOrder ==
    JobReturnedTrue => IdsOf(trace, "add_songs_batch") = ResolvedFrom(1)

\* The failure the remote add-items operation reported to the flush that
\* ended at trace position k: that of its last invocation.
RemoteFailure(k) ==
    trace[CHOOSE j \in Events("add") :
            j < k /\ \A m \in Events("add") : m < k => m <= j].exc

\* The bucket the claim counts the flush at position k in.
ClaimedBucket(k) ==
    IF trace[k].ok THEN "successful" ELSE Classify(RemoteFailure(k).msg)

\* The number of ids of the flushes at positions k.. counted in bucket.
RECURSIVE FlushedInto(_, _)
FlushedInto(bucket, k) ==
    IF k > Len(trace) THEN 0
    ELSE (IF trace[k].op = "add_songs_batch" /\ ClaimedBucket(k) = bucket
          THEN Len(trace[k].ids) ELSE 0) + FlushedInto(bucket, k + 1)

\* The tracks processed so far that obtained no identifier.
Unresolved == {i \in 1..idx : AppendedId(i) = None}

\* C13: a batch whose add-items call finally failed is counted as succeeded
\* when the remote failure text contains STATUS_SUCCEEDED, else as skipped
\* when it mentions already or duplicate, else as failed, id by id.
C13_FlushClassifiedByRemoteText ==
    /\ successful = FlushedInto("successful", 1)
    /\ skipped = FlushedInto("skipped", 1)
    /\ failed = FlushedInto("failed", 1) + Cardinality(Unresolved)

RemoteCalls == Events("add") \cup Events("yt.search")

\* C14: after every flush, whether it succeeded or failed, the pacing delay
\* elapses before the job's next remote call.
C14_PacingAfterEveryFlush ==
    \A k \in Events("add_songs_batch") :
        (\E j \in RemoteCalls : j > k) =>
            /\ trace[k + 1].op = "sleep"
            /\ trace[k + 1].n = pacing_delay

\* C15: once the playlist id has been obtained the job is never aborted: it
\* ends only after the last track, and it returns True whatever failed for
\* individual tracks.
C15_TrackFailuresNeverAbort ==
    playlist_id # None =>
        /\ ret # "False"
        /\ pc = "done" => (ret = "True" /\ idx = Len(songs))

C15_Witness ==
    /\ JobReturnedTrue
    /\ Len(songs) >= 2
    /\ successful = 0
    /\ failed = Len(songs)
    /\ Unresolved # {}
    /\ \E k \in Events("yt.search") : ~trace[k].ok
    /\ \E k \in Events("add_songs_batch") : ~trace[k].ok

CreateRaised == \E k \in Events("create") : ~trace[k].ok
TrackCalls ==
    Events("search_youtube_music") \cup Events("yt.search") \cup Events("add")
    \cup Events("add_songs_batch")

\* C16: when create_playlist raises, import_playlist returns False without
\* a search or add-items call, the run can take its next source, and
\* total_playlists grows by one exactly when a job returns True.
C16_SetupFailureIsolated ==
    /\ [](CreateRaised =>
            /\ pc = "done"
            /\ ret = "False"
            /\ TrackCalls = {}
            /\ files_done < MaxJobs => ENABLED StartRunJob)
    /\ [][total_playlists' =
            total_playlists + (IF ret # "True" /\ ret' = "True" THEN 1 ELSE 0)]_vars

C16_Witness ==
    /\ CreateRaised
    /\ ret = "False"
    /\ files_done = MaxJobs
    /\ total_playlists = 1

\* C17: at job completion every track counted as failed has one entry in
\* the failure list: len(failed_songs) = failed.
C17_OneEntryPerFailedTrack ==
    JobReturnedTrue => Len(failed_songs) = failed

TitleHit(t, r) == casefold(t) # None /\ Contains(casefold(t), casefold(r.title))
ArtistHit(a, r) == casefold(a) # None /\ Contains(casefold(a), ResultArtists(r))
\* The ids of the results among rs that satisfy Rule for field f.
Satisfying(Rule(_, _), f, rs) == {rs[j].videoId : j \in {m \in 1..Len(rs) : Rule(f, rs[m])}}

\* The ids the ranking policy of the claim allows for a track.
Allowed(song, rs) ==
    IF Satisfying(TitleHit, song.title, rs) # {} THEN Satisfying(TitleHit, song.title, rs)
    ELSE IF Satisfying(ArtistHit, song.artists, rs) # {}
    THEN Satisfying(ArtistHit, song.artists, rs)
    ELSE {rs[1].videoId}

\* C18: the chosen result is one whose title contains the track title if any
\* result does, else one whose artists contain the track artist if any does,
\* else the first result.
C18_TitleRuleBeforeArtistRule ==
    \A k \in Events("yt.search") :
        (trace[k].ok /\ trace[k].results # <<>>) =>
            trace[k].val \in Allowed(songs[trace[k].n], trace[k].results)

ListingRaised == \E k \in Events("list") : ~trace[k].ok

\* C19: in append mode, when listing the playlists raises, create_playlist is
\* called exactly once and, when it returns, the job goes on with the new
\* playlist: every track is processed and every batch goes to that playlist.
C19_LookupFailureCreates ==
    (append /\ ListingRaised) =>
        /\ Cardinality(Events("create")) = 1
        /\ ~CreateRaised =>
            /\ pc \in {"loop", "done"}
            /\ ret # "False"
            /\ playlist_id = NewId
            /\ \A k \in Events("add") : trace[k].pid = NewId
            /\ pc = "done" => (ret = "True" /\ idx = Len(songs))

C19_Witness ==
    /\ JobReturnedTrue
    /\ append
    /\ ListingRaised
    /\ TitleMatches # {}
    /\ \E k \in Events("add") : trace[k].pid = NewId /\ trace[k].ok

\* C20: the report shows the first 20 recorded failures at most, in order,
\* and has the line "... and N more" exactly when more than 20 failures were
\* recorded, with N the number recorded minus 20.
C20_ReportBounded ==
    JobReturnedTrue =>
        /\ Len(report.shown) = Min(report_limit, Len(failed_songs))
        /\ report.shown = SubSeq(failed_songs, 1, Len(report.shown))
        /\ report.more > 0 <=> Len(failed_songs) > report_limit
        /\ report.more > 0 => report.more = Len(failed_songs) - report_limit

C20_Witness ==
    /\ JobReturnedTrue
    /\ Len(failed_songs) = report_limit + 1
    /\ report.more = 1
    /\ Len(report.shown) = report_limit

\* C21: when yt.search fails with a retryable cause, the search for that
\* track is attempted again before the track is reported as failed.
C21_FailedSearchRetried ==
    \A k \in Events("yt.search") :
        (~trace[k].ok /\ TransientCause(trace[k].exc)) =>
            \E j \in Events("yt.search") : j > k /\ trace[j].n = trace[k].n

\* C22: a track with no explicit id, no URL id and a title is resolved by
\* search, whichever source produced it, and fails only when the search
\* yields no identifier.
C22_SearchedWhateverSource ==
    \A i \in 1..idx :
        (ExplicitId(i) = None /\ UrlId(i) = None /\ strip(songs[i].title) # None) =>
            /\ SearchedFor(i)
            /\ AppendedId(i) = SearchValue(i)

\* The descriptor of source row k: whether it carries an identifier, and
\* its title.
RowHasId(k) ==
    \/ strip(Cell(headers, rows[k], "MediaId")) # None
    \/ strip(Cell(headers, rows[k], "VideoId")) # None
    \/ re_search(Cell(headers, rows[k], "URL")) # None
RowTitle(k) ==
    IF mode = "csv" THEN strip(Cell(headers, rows[k], "Title")) ELSE strip(rows[k].Title)
\* The tracks of the job that came from source row k.
TracksOfRow(k) ==
    {i \in 1..Len(songs) : IF mode = "csv" THEN songs[i].row_num = k + 1 ELSE i = k}

\* C23: at job completion a descriptor with no identifier and no title is a
\* track of the job that has a failure entry, was never searched for and
\* never entered a batch.
C23_UnresolvableReported ==
    JobReturnedTrue =>
        \A k \in 1..Len(rows) :
            (~RowHasId(k) /\ RowTitle(k) = None) =>
                /\ TracksOfRow(k) # {}
                /\ \A i \in TracksOfRow(k) :
                    /\ ~SearchedFor(i)
                    /\ AppendedId(i) = None
                    /\ \E e \in 1..Len(failed_songs) :
                        /\ failed_songs[e].row = songs[i].row_num
                        /\ failed_songs[e].title = songs[i].title
                        /\ failed_songs[e].error = MsgNoId

\* C24: searched is the number of tracks whose identifier was obtained by
\* search; a track whose search returned nothing is not counted.
C24_SearchedCountsHits ==
    searched = Cardinality({i \in 1..idx : SearchValue(i) # None})

\* C25: after each track, successful + skipped + failed + len(batch) is the
\* number of tracks processed so far, and the three counters together never
\* exceed len(songs).
C25_RunningCounts ==
    /\ successful + skipped + failed + Len(batch) = idx
    /\ successful + skipped + failed <= Len(songs)

C25_Witness ==
    /\ pc = "loop"
    /\ idx = Len(songs)
    /\ Len(batch) = 1
    /\ failed = 1
    /\ successful = 0
    /\ Events("yt.search") # {}

\* The events a step adds to the trace of the job in progress.
NewEvents ==
    IF Len(trace') >= Len(trace) THEN SubSeq(trace', Len(trace) + 1, Len(trace')) ELSE <<>>
SearchRaisedInStep ==
    \E k \in 1..Len(NewEvents) : NewEvents[k].op = "yt.search" /\ ~NewEvents[k].ok

\* C26: across the jobs of a run, a query present in SEARCH_CACHE keeps its
\* value and is never removed, and a step whose remote search raised leaves
\* the cache as it was.
C26_CacheWriteOnce ==
    [][/\ \A q \in DOMAIN SEARCH_CACHE :
            q \in DOMAIN SEARCH_CACHE' /\ SEARCH_CACHE'[q] = SEARCH_CACHE[q]
       /\ SearchRaisedInStep => SEARCH_CACHE' = SEARCH_CACHE]_vars

C26_Witness ==
    /\ files_done >= 2
    /\ Events("yt.search") = {}
    /\ \E k \in Events("search_youtube_music") :
        /\ trace[k].val # None
        /\ trace[k].q \in DOMAIN SEARCH_CACHE
        /\ SEARCH_CACHE[trace[k].q] = trace[k].val

SetupCalls == Events("list") \cup Events("create")

\* C27: within a job the listing is made only in append mode and before
\* create_playlist, create_playlist is called at most once, both precede
\* every search and add-items call, every add-items call targets the one
\* playlist id of the setup, and a playlist that was not found is created
\* even when no track resolves.
C27_SetupBeforeTracks ==
    /\ ~append => Events("list") = {}
    /\ (append /\ pc \in {"loop", "done"}) => Cardinality(Events("list")) = 1
    /\ Cardinality(Events("create")) <= 1
    /\ \A k \in Events("list"), j \in Events("create") : k < j
    /\ \A k \in SetupCalls, j \in TrackCalls : k < j
    /\ \A k \in Events("add") : playlist_id # None /\ trace[k].pid = playlist_id
    /\ (pc \in {"loop", "done"} /\ ret # "False") =>
        /\ playlist_id # None
        /\ Events("create") = {} => (append /\ ListingReturned /\ TitleMatches # {})
        /\ \A k \in Events("create") : trace[k].ok /\ trace[k].pid = playlist_id

C27_Witness ==
    /\ JobReturnedTrue
    /\ append
    /\ Events("list") # {}
    /\ Events("create") # {}
    /\ Len(songs) >= 1
    /\ Events("append") = {}
    /\ Events("yt.search") # {}

\* C28: the pending batch never holds more than 20 ids, add_songs_batch is
\* never called with an empty batch, the batch is empty after every flush
\* whatever its outcome, and no id of a flushed batch stays pending.
C28_BatchBounds ==
    /\ [](/\ Len(batch) <= batch_size
          /\ \A k \in Events("add_songs_batch") :
                trace[k].ids # <<>> /\ Len(trace[k].ids) <= batch_size
          /\ IdsOf(trace, "add_songs_batch") \o batch = IdsOf(trace, "append"))
    /\ [][Len(Flushes') > Len(Flushes) => batch' = <<>>]_vars

C28_Witness ==
    /\ JobReturnedTrue
    /\ batch = <<>>
    /\ Len(Flushes) = 2
    /\ ~Flushes[1].ok
    /\ Len(Flushes[1].ids) = batch_size
    /\ ~Flushes[2].ok
    /\ Len(Flushes[2].ids) = 1

====
